---- MODULE Spec2Model ----
(***************************************************************************)
(* Stage-light effect prediction: the constraint validator (validate.py),  *)
(* the per-beat generate-validate-retry loop (_call_llm_single) and the    *)
(* bounded-concurrency batch (predict_effects) of llm.py.                  *)
(*                                                                         *)
(* Beat indices are 0-based as in the source.  A Python list indexed by    *)
(* beat is a function over 0..N-1; a list that is only appended to and     *)
(* iterated is a sequence.                                                 *)
(***************************************************************************)
EXTENDS Integers, Sequences, FiniteSets, TLC

VARIABLES
    \* ---- inputs of predict_effects -----------------------------------
    beats,            \* the beat list read from the timeline file
    window_size,      \* context beats on each side
    max_retries,      \* attempts per beat
    max_concurrent,   \* concurrency limit
    api_key,          \* TRUE iff OPENAI_API_KEY is set
    service,          \* which generation service answers the calls
    \* ---- predict_effects (main thread) -------------------------------
    mainpc,           \* position of the main thread
    submitted,        \* number of futures created so far
    semaphore,        \* value of Semaphore(max_concurrent)
    completed,        \* completed[0], the progress counter
    all_effects,      \* result array, one slot per beat
    all_reasonings,   \* rationale array, one slot per beat
    collected,        \* futures already taken from as_completed
    \* ---- one task per beat (process_beat / _call_llm_single) ---------
    pc,               \* position of each task
    attempt,          \* loop variable of the retry loop
    base_prompt,      \* the request text build_single_beat_prompt built
    error_feedback,   \* feedback carried to the next request
    user_prompt,      \* the request text of the call in flight
    content,          \* outcome of the service call just handled
    calls,            \* number of service calls issued for the beat
    outcome,          \* which return statement the generator left by
    ret,              \* value returned by the task (the future's result)
    loaded,           \* value of completed[0] read by "+= 1"
    \* ---- direct calls of the validator -------------------------------
    vpc,              \* position of the validator run
    gl,               \* the groupLight object under validation
    vbeat,            \* the beat index the validator is called with
    errors,           \* the list validate_group_light returned
    \* ---- validate_file on the merged timeline -------------------------
    stats,            \* the statistics validate_file returned
    timeline          \* the groupLights of the beats of the audited file

vars == << beats, window_size, max_retries, max_concurrent, api_key, service,
           mainpc, submitted, semaphore, completed, all_effects,
           all_reasonings, collected,
           pc, attempt, base_prompt, error_feedback, user_prompt, content,
           calls, outcome, ret, loaded,
           vpc, gl, vbeat, errors, stats, timeline >>

mainVars == << beats, window_size, max_retries, max_concurrent, api_key,
               service, mainpc, submitted, semaphore, completed, all_effects,
               all_reasonings, collected,
               pc, attempt, base_prompt, error_feedback, user_prompt,
               content, calls, outcome, ret, loaded >>

validatorVars == << vpc, gl, vbeat, errors, stats, timeline >>

(***************************************************************************)
(* Bounds of the model.                                                    *)
(***************************************************************************)
MaxBeats == 2          \* longest beat list
MaxRetries == 2        \* largest max_retries
MaxConcurrent == 2     \* largest max_concurrent
MaxWindow == 1         \* largest window_size for unchecked timelines
OutOfRange == 1        \* how far beyond an enum range a field value goes
MaxTimeline == 4       \* longest beat list of the request-building runs
MaxContext == 3        \* largest window_size of the request-building runs
MaxQueue == 3          \* longest beat list of the runs with a hung call
MaxFileBeats == 2      \* most beats of an audited timeline file
MaxEffects == 2        \* most effects of a beat of an audited file
MaxAttempts == 3       \* largest max_retries of the single-beat runs

(***************************************************************************)
(* validate.py: the constraint grammar.                                    *)
(***************************************************************************)
\* the required fields looked for in the order of VALID_RANGES
RequiredFieldsInRangeOrder ==
    << "MotionEffect", "ColorEffect", "IntensityEffect", "VfxEffect",
       "groupLightKey" >>

\* line 37
RequiredFields ==
    << "groupLightKey", "MotionEffect", "ColorEffect", "IntensityEffect",
       "VfxEffect" >>

\* VALID_RANGES in the iteration order of the dict; range(0, n) is 0..n-1
RangeFields ==
    << "MotionEffect", "ColorEffect", "IntensityEffect", "VfxEffect",
       "groupLightKey" >>

VALID_RANGES ==
    [ MotionEffect    |-> 0..6,
      ColorEffect     |-> 0..3,
      IntensityEffect |-> 0..4,
      VfxEffect       |-> 0..2,
      groupLightKey   |-> 0..6 ]

VFX_KEYS == {0, 1}
SINGLE_KEYS == {2, 3}
MULTI_KEYS == {4, 5, 6}
\* a validator that takes "use 3-6" literally and forgets None
SINGLE_MOTIONS_3_to_6 == {3, 4, 5, 6}

SINGLE_MOTIONS == {0, 3, 4, 5, 6}
MULTI_MOTIONS == {0, 1, 2}

\* A violation message.  "tagged" tells whether the text carries the
\* groupLightKey ("Beat 3, key 0: ..." against "Beat 3: missing field ...").
Message(kind, beat_idx, tagged, key, field, value) ==
    [ kind |-> kind, beat |-> beat_idx, tagged |-> tagged, key |-> key,
      field |-> field, value |-> value ]

\* lines 37-40: the first absent required field, if any
MissingFields(g) == SelectSeq(RequiredFields, LAMBDA f : f \notin DOMAIN g)

\* lines 43-45
RangeErrors(g, beat_idx) ==
    LET bad == SelectSeq(RangeFields, LAMBDA f : g[f] \notin VALID_RANGES[f])
    IN  [ n \in 1..Len(bad) |->
            Message("out_of_range", beat_idx, TRUE, g["groupLightKey"],
                    bad[n], g[bad[n]]) ]

\* lines 48-56
VfxGroupErrors(g, beat_idx) ==
    LET key == g["groupLightKey"] IN
    IF key \notin VFX_KEYS THEN << >> ELSE
      (IF g["MotionEffect"] # 0
         THEN << Message("vfx_should_be_0", beat_idx, TRUE, key,
                         "MotionEffect", g["MotionEffect"]) >>
         ELSE << >>)
      \o
      (IF g["ColorEffect"] # 0
         THEN << Message("vfx_should_be_0", beat_idx, TRUE, key,
                         "ColorEffect", g["ColorEffect"]) >>
         ELSE << >>)
      \o
      (IF g["IntensityEffect"] # 0
         THEN << Message("vfx_should_be_0", beat_idx, TRUE, key,
                         "IntensityEffect", g["IntensityEffect"]) >>
         ELSE << >>)
      \o
      (IF g["VfxEffect"] = 0
         THEN << Message("vfx_should_not_be_0", beat_idx, TRUE, key,
                         "VfxEffect", 0) >>
         ELSE << >>)

\* lines 59-63
SingleGroupErrors(g, beat_idx) ==
    LET key == g["groupLightKey"] IN
    IF key \notin SINGLE_KEYS THEN << >> ELSE
      (IF g["MotionEffect"] \notin SINGLE_MOTIONS
         THEN << Message("single_motion", beat_idx, TRUE, key,
                         "MotionEffect", g["MotionEffect"]) >>
         ELSE << >>)
      \o
      (IF g["VfxEffect"] # 0
         THEN << Message("single_vfx", beat_idx, TRUE, key,
                         "VfxEffect", g["VfxEffect"]) >>
         ELSE << >>)

\* lines 66-70
MultiGroupErrors(g, beat_idx) ==
    LET key == g["groupLightKey"] IN
    IF key \notin MULTI_KEYS THEN << >> ELSE
      (IF g["MotionEffect"] \notin MULTI_MOTIONS
         THEN << Message("multi_motion", beat_idx, TRUE, key,
                         "MotionEffect", g["MotionEffect"]) >>
         ELSE << >>)
      \o
      (IF g["VfxEffect"] # 0
         THEN << Message("multi_vfx", beat_idx, TRUE, key,
                         "VfxEffect", g["VfxEffect"]) >>
         ELSE << >>)

\* a validator that checks the required fields and the enum ranges and
\* skips the rules of the group
validate_ranges_only(g, beat_idx) ==
    IF MissingFields(g) # << >>
      THEN << Message("missing_field", beat_idx, FALSE, 0,
                      Head(MissingFields(g)), 0) >>
      ELSE RangeErrors(g, beat_idx)

\* validate_group_light(gl, beat_idx): the list of violation messages
validate_group_light(g, beat_idx) ==
    IF MissingFields(g) # << >>
      THEN << Message("missing_field", beat_idx, FALSE, 0,
                      Head(MissingFields(g)), 0) >>
      ELSE RangeErrors(g, beat_idx) \o VfxGroupErrors(g, beat_idx)
             \o SingleGroupErrors(g, beat_idx) \o MultiGroupErrors(g, beat_idx)

\* a groupLight object with all five fields
GroupLight(key, motion, color, intensity, vfx) ==
    [ groupLightKey |-> key, MotionEffect |-> motion, ColorEffect |-> color,
      IntensityEffect |-> intensity, VfxEffect |-> vfx ]

(***************************************************************************)
(* The generation service and what it answers.                             *)
(*                                                                         *)
(* A call either raises (a transport failure) or returns text.  The text   *)
(* is described by what json.loads and the brace search make of it:        *)
(*   "json"      json.loads(content) succeeds and gives `value`            *)
(*   "fenced"    json.loads(content) fails, the span from the first "{"    *)
(*               to the last "}" is the JSON text of the object `value`    *)
(*   "bad_brace" json.loads(content) fails, the brace span is no JSON      *)
(*   "garbage"   json.loads(content) fails, the text holds no brace span   *)
(* A decoded JSON value is a scalar, a string, a list, an effect dict (its *)
(* keys are the domain of gl) or an object given by its key/value pairs    *)
(* in document order.                                                      *)
(***************************************************************************)
JScalar == [ t |-> "scalar" ]
JStr(s) == [ t |-> "str", s |-> s ]
JList(items) == [ t |-> "list", items |-> items ]
JDict(g) == [ t |-> "dict", gl |-> g ]
JObj(pairs) == [ t |-> "obj", pairs |-> pairs ]
KV(k, v) == [ k |-> k, v |-> v ]

Raised == [ form |-> "raise" ]
Text(form, value) == [ form |-> form, value |-> value ]
NoContent == [ form |-> "none" ]

\* effect dicts the service may propose
FX_VFX == GroupLight(0, 0, 0, 0, 1)
FX_SINGLE == GroupLight(2, 3, 1, 1, 0)
FX_MULTI == GroupLight(4, 1, 2, 3, 0)
FX_VFX_MOTION == GroupLight(0, 2, 0, 0, 1)         \* VFX row broken
FX_SINGLE_LASER == GroupLight(2, 1, 1, 1, 0)       \* SINGLE row broken
FX_MULTI_VFX == GroupLight(5, 1, 2, 3, 2)          \* MULTI row broken
FX_SEVEN == GroupLight(0, 7, 4, 5, 0)              \* seven violations
FX_NO_VFX_FIELD ==                                 \* a missing field
    [ groupLightKey |-> 4, MotionEffect |-> 1, ColorEffect |-> 2,
      IntensityEffect |-> 3 ]

R_VALID ==
    Text("json", JObj(<< KV("reasoning", JStr("chorus")),
                         KV("effects", JList(<< JDict(FX_VFX),
                                                JDict(FX_MULTI) >>)) >>))
R_EMPTY ==
    Text("json", JObj(<< KV("reasoning", JStr("breathing room")),
                         KV("effects", JList(<< >>)) >>))
R_FENCED ==
    Text("fenced", JObj(<< KV("reasoning", JStr("verse")),
                           KV("effects", JList(<< JDict(FX_SINGLE) >>)) >>))
R_TOP_LIST == Text("json", JList(<< JDict(FX_SINGLE) >>))
R_PARTLY_VALID ==
    Text("json", JObj(<< KV("reasoning", JStr("drop")),
                         KV("effects", JList(<< JDict(FX_MULTI),
                                                JDict(FX_VFX_MOTION) >>)) >>))
R_SEVEN ==
    Text("json", JObj(<< KV("reasoning", JStr("drop")),
                         KV("effects", JList(<< JDict(FX_SEVEN) >>)) >>))
R_MISSING_FIELD ==
    Text("json", JObj(<< KV("reasoning", JStr("verse")),
                         KV("effects", JList(<< JDict(FX_NO_VFX_FIELD) >>)) >>))
R_NESTED ==
    Text("json", JObj(<< KV("reasoning", JStr("drop")),
                         KV("effects",
                            JList(<< JList(<< JDict(FX_SINGLE),
                                              JDict(FX_SINGLE_LASER) >>) >>)) >>))
R_NOT_A_RECORD ==
    Text("json", JObj(<< KV("reasoning", JStr("chorus")),
                         KV("effects", JList(<< JDict(FX_VFX), JScalar >>)) >>))
R_OTHER_KEY ==
    Text("json", JObj(<< KV("reasoning", JStr("verse")),
                         KV("lights", JList(<< JDict(FX_SINGLE) >>)) >>))
R_EFFECTS_NOT_LIST ==
    Text("json", JObj(<< KV("effects", JStr("see lights")),
                         KV("lights", JList(<< JDict(FX_MULTI_VFX) >>)) >>))
R_NO_EFFECTS ==
    Text("json", JObj(<< KV("reasoning", JStr("intro")) >>))
R_SCALAR == Text("json", JScalar)
R_BAD_BRACE == Text("bad_brace", JScalar)
R_GARBAGE == Text("garbage", JScalar)

\* every outcome of a call to an arbitrary service
Outcomes ==
    { Raised, R_VALID, R_EMPTY, R_FENCED, R_TOP_LIST, R_PARTLY_VALID, R_SEVEN,
      R_MISSING_FIELD, R_NESTED, R_NOT_A_RECORD, R_OTHER_KEY,
      R_EFFECTS_NOT_LIST, R_NO_EFFECTS, R_SCALAR, R_BAD_BRACE, R_GARBAGE }

\* the answer of the mock service of the batch tests to the request for
\* beat beat_idx: a payload derived from the beat index
R_BEAT(beat_idx) ==
    Text("json",
         JObj(<< KV("reasoning", JStr(ToString(beat_idx))),
                 KV("effects",
                    JList(<< JDict(GroupLight(4 + (beat_idx % 3), 1, 2, 3,
                                              0)) >>)) >>))

\* the services: an arbitrary one ("any"); the mock of the batch tests,
\* which answers the beat's payload, an invalid proposal or fails
\* ("mock"); one whose every call raises a transport error; one that
\* always answers a valid empty effects array
ServiceOutcomes(s, beat_idx) ==
    CASE s = "any"           -> Outcomes
      [] s = "mock"          -> { R_BEAT(beat_idx), R_PARTLY_VALID, Raised }
      [] s = "always_raises" -> { Raised }
      [] s = "always_empty"  -> { R_EMPTY }

(***************************************************************************)
(* llm.py, _call_llm_single: one pass of the retry loop on the outcome of  *)
(* the service call.                                                       *)
(***************************************************************************)
\* dict.get(key, default) on a decoded object
Get(obj, key, default) ==
    LET hits == SelectSeq(obj.pairs, LAMBDA p : p.k = key)
    IN  IF hits = << >> THEN default ELSE hits[Len(hits)].v

\* a decoder that takes text without any JSON in it for an empty object
DecodeLenient(c) ==
    CASE c.form = "json"      -> [ how |-> "parsed", parsed |-> c.value ]
      [] c.form = "fenced"    -> [ how |-> "parsed", parsed |-> c.value ]
      [] c.form = "bad_brace" -> [ how |-> "raise" ]
      [] OTHER                -> [ how |-> "parsed", parsed |-> JObj(<< >>) ]

\* lines 213-221: "parsed" when the text decodes, "raise" when json.loads
\* of the brace span raises, "continue" when there is no brace span
Decode(c) ==
    CASE c.form = "json"      -> [ how |-> "parsed", parsed |-> c.value ]
      [] c.form = "fenced"    -> [ how |-> "parsed", parsed |-> c.value ]
      [] c.form = "bad_brace" -> [ how |-> "raise" ]
      [] OTHER                -> [ how |-> "continue" ]

\* lines 224-226
ExtractReasoning(parsed) ==
    IF parsed.t = "obj" THEN Get(parsed, "reasoning", JStr("")).s ELSE ""

\* lines 229-234: the first value of the object that is a list
FirstListValue(parsed) ==
    LET lists == SelectSeq(parsed.pairs, LAMBDA p : p.v.t = "list")
    IN  IF lists = << >> THEN << >> ELSE lists[1].v.items

\* lines 225-238
ExtractEffects(parsed) ==
    IF parsed.t = "obj"
      THEN LET effects == Get(parsed, "effects", JList(<< >>))
           IN  IF effects.t = "list" THEN effects.items
                                     ELSE FirstListValue(parsed)
      ELSE IF parsed.t = "list" THEN parsed.items ELSE << >>

\* line 246: the dicts of a nested list
DictsOf(items) == SelectSeq(items, LAMBDA x : x.t = "dict")

\* a normalizer that gives up the whole list when an item is not a dict
NormalizeAllOrNothing(effects) ==
    IF \A n \in 1..Len(effects) : effects[n].t = "dict"
      THEN effects ELSE << >>

\* lines 241-247: dicts are kept, a nested list gives its dicts, anything
\* else is dropped
RECURSIVE Normalize(_)
Normalize(effects) ==
    IF effects = << >> THEN << >>
    ELSE LET item == Head(effects) IN
         (CASE item.t = "dict" -> << item >>
            [] item.t = "list" -> DictsOf(item.items)
            [] OTHER           -> << >>)
         \o Normalize(Tail(effects))

\* line 247: the list that is validated and returned holds the dicts
Records(normalized) == [ n \in 1..Len(normalized) |-> normalized[n].gl ]

\* a loop that validates the first candidate only
AllErrorsOfFirst(effects, beat_idx) ==
    IF effects = << >> THEN << >>
    ELSE validate_group_light(Head(effects), beat_idx)

\* lines 250-253
RECURSIVE AllErrors(_, _)
AllErrors(effects, beat_idx) ==
    IF effects = << >> THEN << >>
    ELSE validate_group_light(Head(effects), beat_idx)
           \o AllErrors(Tail(effects), beat_idx)

\* feedback that relays every violation
FeedbackUncapped(all_errors) == all_errors

\* line 256: "\n".join(all_errors[:5])
Feedback(all_errors) ==
    SubSeq(all_errors, 1, IF Len(all_errors) < 5 THEN Len(all_errors) ELSE 5)

\* a loop that runs once more than max_retries
LoopGoesOnOnceMore(a, n) == a <= n

\* line 193: for attempt in range(max_retries)
LoopGoesOn(a, n) == a < n

\* a handler that forgets the feedback when the call raises
OnExceptionForget(fb) == [ how |-> "continue", feedback |-> << >> ]

\* a handler that gives up at the first exception
OnExceptionGiveUp(fb) ==
    [ how |-> "return", effects |-> << >>, reasoning |-> "" ]

\* lines 261-262: except Exception: continue
OnException(fb) == [ how |-> "continue", feedback |-> fb ]

\* lines 255-257
OnErrors(all_errors) ==
    [ how |-> "continue", feedback |-> Feedback(all_errors) ]

\* a generator that forbids empty effect sets and asks again
OnValidRetryEmpty(effects, reasoning, fb) ==
    IF effects = << >>
      THEN [ how |-> "continue", feedback |-> fb ]
      ELSE [ how |-> "return", effects |-> effects, reasoning |-> reasoning ]

\* line 259
OnValid(effects, reasoning, fb) ==
    [ how |-> "return", effects |-> effects, reasoning |-> reasoning ]

\* lines 194-262, from the answer of the call on: what the pass does with
\* outcome c for beat beat_idx when it carries feedback fb.
\*   "return"   line 259, with the effects and the reasoning
\*   "continue" the next pass, with the feedback it will carry
Pass(c, beat_idx, fb) ==
    IF c.form = "raise" THEN OnException(fb)
    ELSE IF Decode(c).how = "raise" THEN OnException(fb)
    ELSE IF Decode(c).how = "continue"
      THEN [ how |-> "continue", feedback |-> fb ]
    ELSE LET parsed == Decode(c).parsed
             effects == Records(Normalize(ExtractEffects(parsed)))
             all_errors == AllErrors(effects, beat_idx)
         IN  IF all_errors # << >>
               THEN OnErrors(all_errors)
               ELSE OnValid(effects, ExtractReasoning(parsed), fb)

(***************************************************************************)
(* llm.py, build_single_beat_prompt: a beat dict is modelled by the keys   *)
(* it holds; the request is built from beats[i]["time"] and                *)
(* beats[i]["duration"] of the target and of its context.                  *)
(***************************************************************************)
Beat == { "time", "duration" }
RawBeats == SUBSET Beat

DefaultWindowSize == 2

Max(a, b) == IF a > b THEN a ELSE b
Min(a, b) == IF a < b THEN a ELSE b

Total == Cardinality(DOMAIN beats)
Indices == 0..(Total - 1)

\* line 105: range(max(0, beat_idx - window_size), beat_idx)
ContextBefore(beat_idx, total, w) == Max(0, beat_idx - w)..(beat_idx - 1)

\* line 111: range(beat_idx + 1, min(total, beat_idx + window_size + 1))
ContextAfter(beat_idx, total, w) ==
    (beat_idx + 1)..(Min(total, beat_idx + w + 1) - 1)

\* lines 85-86, 106, 112, 117: _build_beat_entry reads both keys
EntriesBuilt(beat_idx, total, w) ==
    ContextBefore(beat_idx, total, w) \cup ContextAfter(beat_idx, total, w)
      \cup { beat_idx }

\* lines 120-121: the gaps read "time" of the neighbours that exist
GapBeats(beat_idx, total) ==
    { beat_idx }
      \cup (IF beat_idx > 0 THEN { beat_idx - 1 } ELSE { })
      \cup (IF beat_idx < total - 1 THEN { beat_idx + 1 } ELSE { })

\* build_single_beat_prompt raises KeyError on a beat dict without the key
BuildRaises(beat_idx, bs, w) ==
    LET total == Cardinality(DOMAIN bs) IN
    \/ \E j \in EntriesBuilt(beat_idx, total, w) : bs[j] # Beat
    \/ \E j \in GapBeats(beat_idx, total) : "time" \notin bs[j]

\* range(a, b) as the list a, a+1, .., b-1
RangeList(a, b) == [ n \in 1..(b - a) |-> a + n - 1 ]

\* line 105: the beats listed with position "before", in the order of the
\* appends
ctx_before(beat_idx, total, w) == RangeList(Max(0, beat_idx - w), beat_idx)

\* an "after" context that is not cut at the end of the beat list
ctx_after_uncut(beat_idx, total, w) ==
    RangeList(beat_idx + 1, beat_idx + w + 1)

\* line 111: the beats listed with position "after"
ctx_after(beat_idx, total, w) ==
    RangeList(beat_idx + 1, Min(total, beat_idx + w + 1))

\* lines 98-175: the request for beat beat_idx, given by the beats it lists
build_single_beat_prompt(beat_idx, bs, w) ==
    LET total == Cardinality(DOMAIN bs) IN
    [ target |-> beat_idx,
      before |-> ctx_before(beat_idx, total, w),
      after |-> ctx_after(beat_idx, total, w) ]

\* lines 195-202: the base request, with the feedback appended when there
\* is one
UserPrompt(base, feedback) == [ base |-> base, feedback |-> feedback ]

\* feedback read from one place whatever the beat
SharedFeedback(beat_idx) == error_feedback[0]

\* line 191: error_feedback is a local of the call for beat beat_idx
LocalFeedback(beat_idx) == error_feedback[beat_idx]

(***************************************************************************)
(* llm.py, predict_effects: the main thread, the executor and the tasks.   *)
(***************************************************************************)
None == [ none |-> TRUE ]
Some(v) == [ none |-> FALSE, val |-> v ]

\* a semaphore created with one slot too many
SemaphoreOneMore(value) == value + 1

\* line 294
Semaphore(value) == value

\* a pool that never holds more than one worker thread
single_worker == Min(1, max_concurrent)

\* line 311: ThreadPoolExecutor(max_workers=max_concurrent)
max_workers == max_concurrent

\* tasks a worker thread is running
Running ==
    { i \in Indices :
        pc[i] \in { "acquire", "build", "attempt", "incall", "hung",
                    "counter_load", "counter_store" } }

Finished == { i \in Indices : pc[i] \in { "done", "raised" } }

\* the exceptions predict_effects can leave by
MainRaised == { "ValueError", "KeyError", "ZeroDivisionError" }

\* validate_file has not run
EmptyCounter == [ v \in { } |-> 0 ]

NoStats ==
    [ total_beats |-> 0, beats_with_effects |-> 0, beats_empty |-> 0,
      groupKey_usage |-> EmptyCounter, motion_usage |-> EmptyCounter,
      color_usage |-> EmptyCounter, intensity_usage |-> EmptyCounter,
      vfx_usage |-> EmptyCounter ]

ValidatorIdle ==
    /\ vpc = "idle"
    /\ gl = FX_VFX
    /\ vbeat = 0
    /\ errors = << >>
    /\ stats = NoStats
    /\ timeline = << >>

\* the state at the call of predict_effects on beat list bs
InitCall(bs) ==
    /\ beats = bs
    /\ mainpc = "create_client"
    /\ submitted = 0
    /\ semaphore = 0
    /\ completed = 0
    /\ all_effects = [ i \in DOMAIN bs |-> None ]
    /\ all_reasonings = [ i \in DOMAIN bs |-> None ]
    /\ collected = { }
    /\ pc = [ i \in DOMAIN bs |-> "unsubmitted" ]
    /\ attempt = [ i \in DOMAIN bs |-> 0 ]
    /\ base_prompt = [ i \in DOMAIN bs |-> None ]
    /\ error_feedback = [ i \in DOMAIN bs |-> << >> ]
    /\ user_prompt = [ i \in DOMAIN bs |-> None ]
    /\ content = [ i \in DOMAIN bs |-> NoContent ]
    /\ calls = [ i \in DOMAIN bs |-> 0 ]
    /\ outcome = [ i \in DOMAIN bs |-> "none" ]
    /\ ret = [ i \in DOMAIN bs |-> None ]
    /\ loaded = [ i \in DOMAIN bs |-> 0 ]
    /\ ValidatorIdle

InitBatch(bs) ==
    /\ max_retries \in 0..MaxRetries
    /\ api_key \in BOOLEAN
    /\ InitCall(bs)

\* a beat list as the data model has it: every beat holds time and duration
Init ==
    /\ \E n \in 0..MaxBeats : InitBatch([ i \in 0..(n - 1) |-> Beat ])
    /\ window_size = DefaultWindowSize
    /\ max_concurrent \in 1..MaxConcurrent
    /\ service \in { "mock", "always_raises" }

\* the same on the service that proposes no effect for any beat
InitEmpty ==
    /\ \E n \in 0..MaxBeats : InitBatch([ i \in 0..(n - 1) |-> Beat ])
    /\ window_size = DefaultWindowSize
    /\ max_concurrent \in 1..MaxConcurrent
    /\ service = "always_empty"

\* the same with an arbitrary service, one request at a time: the per-beat
\* generator on every answer a service can give
InitGenerator ==
    /\ \E n \in 1..MaxBeats : InitBatch([ i \in 0..(n - 1) |-> Beat ])
    /\ window_size = DefaultWindowSize
    /\ max_concurrent = 1
    /\ service = "any"

\* longer beat lists and every window from 0 on, one attempt per beat on a
\* service that is down: each task builds its request, sends it once and
\* ends with the fallback
InitWindow ==
    /\ \E n \in 1..MaxTimeline : InitBatch([ i \in 0..(n - 1) |-> Beat ])
    /\ max_retries = 1
    /\ api_key
    /\ window_size \in 0..MaxContext
    /\ max_concurrent = 1
    /\ service = "always_raises"

\* one beat, an arbitrary service and longer retry loops
InitRetry ==
    /\ InitCall([ i \in 0..0 |-> Beat ])
    /\ max_retries \in 0..MaxAttempts
    /\ api_key = TRUE
    /\ window_size = DefaultWindowSize
    /\ max_concurrent = 1
    /\ service = "any"

\* a batch whose beats outnumber the slots, on the service that proposes
\* no effect: every call that returns is accepted
InitQueue ==
    /\ \E n \in 1..MaxQueue : InitBatch([ i \in 0..(n - 1) |-> Beat ])
    /\ window_size = DefaultWindowSize
    /\ max_concurrent \in 1..MaxConcurrent
    /\ service = "always_empty"

\* a beat list as json.load gives it (main.py, load_beats): nothing checks
\* the keys of a beat
InitRaw ==
    /\ \E n \in 0..MaxBeats :
         \E bs \in [ 0..(n - 1) -> RawBeats ] : InitBatch(bs)
    /\ window_size \in 0..MaxWindow
    /\ max_concurrent \in 1..MaxConcurrent
    /\ service \in { "mock", "always_raises" }

\* a client built without looking at the credential
create_client_unchecked(key) == "client"

\* lines 73-79: create_client raises when OPENAI_API_KEY is not set
create_client(key) == IF key THEN "client" ELSE "ValueError"

\* lines 289-295
CreateClient ==
    /\ mainpc = "create_client"
    /\ IF create_client(api_key) = "client"
         THEN /\ mainpc' = (IF Total = 0 THEN "as_completed" ELSE "submit")
              /\ semaphore' = Semaphore(max_concurrent)
         ELSE /\ mainpc' = "ValueError"
              /\ UNCHANGED semaphore
    /\ UNCHANGED << beats, window_size, max_retries, max_concurrent, api_key,
                    service, submitted, completed, all_effects,
                    all_reasonings, collected, pc, attempt, error_feedback,
                    content, calls, outcome, ret, loaded,
                    base_prompt, user_prompt, validatorVars >>

\* line 312: executor.submit(process_beat, i)
Submit ==
    /\ mainpc = "submit"
    /\ submitted < Total
    /\ pc' = [ pc EXCEPT ![submitted] = "queued" ]
    /\ submitted' = submitted + 1
    /\ mainpc' = (IF submitted + 1 = Total THEN "as_completed" ELSE "submit")
    /\ UNCHANGED << beats, window_size, max_retries, max_concurrent, api_key,
                    service, semaphore, completed, all_effects,
                    all_reasonings, collected, attempt, error_feedback,
                    content, calls, outcome, ret, loaded,
                    base_prompt, user_prompt, validatorVars >>

\* a worker thread of the pool takes the oldest queued task
Dequeue(i) ==
    /\ pc[i] = "queued"
    /\ \A j \in Indices : j < i => pc[j] # "queued"
    /\ Cardinality(Running) < max_workers
    /\ pc' = [ pc EXCEPT ![i] = "acquire" ]
    /\ UNCHANGED << beats, window_size, max_retries, max_concurrent, api_key,
                    service, mainpc, submitted, semaphore, completed,
                    all_effects, all_reasonings, collected, attempt,
                    error_feedback, content, calls, outcome, ret, loaded,
                    base_prompt, user_prompt,
                    validatorVars >>

\* line 298: with semaphore
Acquire(i) ==
    /\ pc[i] = "acquire"
    /\ semaphore > 0
    /\ semaphore' = semaphore - 1
    /\ pc' = [ pc EXCEPT ![i] = "build" ]
    /\ UNCHANGED << beats, window_size, max_retries, max_concurrent, api_key,
                    service, mainpc, submitted, completed, all_effects,
                    all_reasonings, collected, attempt, error_feedback,
                    content, calls, outcome, ret, loaded,
                    base_prompt, user_prompt, validatorVars >>

\* lines 187-191: the request is built before the try block; a KeyError
\* leaves _call_llm_single and process_beat (releasing the semaphore) and
\* becomes the exception of the future
BuildPrompt(i) ==
    /\ pc[i] = "build"
    /\ IF BuildRaises(i, beats, window_size)
         THEN /\ pc' = [ pc EXCEPT ![i] = "raised" ]
              /\ semaphore' = semaphore + 1
              /\ UNCHANGED base_prompt
         ELSE /\ pc' = [ pc EXCEPT ![i] = "attempt" ]
              /\ base_prompt' =
                   [ base_prompt EXCEPT
                       ![i] = Some(build_single_beat_prompt(i, beats,
                                                            window_size)) ]
              /\ UNCHANGED semaphore
    /\ attempt' = [ attempt EXCEPT ![i] = 0 ]
    /\ error_feedback' = [ error_feedback EXCEPT ![i] = << >> ]
    /\ UNCHANGED << beats, window_size, max_retries, max_concurrent, api_key,
                    service, mainpc, submitted, completed, all_effects,
                    all_reasonings, collected, content, calls, outcome, ret,
                    loaded, user_prompt, validatorVars >>

\* lines 193-211: the loop goes on and the request is sent
StartCall(i) ==
    /\ pc[i] = "attempt"
    /\ LoopGoesOn(attempt[i], max_retries)
    /\ pc' = [ pc EXCEPT ![i] = "incall" ]
    /\ calls' = [ calls EXCEPT ![i] = @ + 1 ]
    /\ content' = [ content EXCEPT ![i] = NoContent ]
    /\ user_prompt' =
         [ user_prompt EXCEPT
             ![i] = Some(UserPrompt(base_prompt[i].val, LocalFeedback(i))) ]
    /\ UNCHANGED << beats, window_size, max_retries, max_concurrent, api_key,
                    service, mainpc, submitted, semaphore, completed,
                    all_effects, all_reasonings, collected, attempt,
                    error_feedback, outcome, ret, loaded, base_prompt,
                    validatorVars >>

\* lines 204-262: the call ends with outcome c and the pass handles it; the
\* request text is rebuilt by the next pass, and at the return of line 259
\* the locals of the loop are gone
Receive(i, c) ==
    /\ pc[i] = "incall"
    /\ content' = [ content EXCEPT ![i] = c ]
    /\ user_prompt' = [ user_prompt EXCEPT ![i] = None ]
    /\ LET p == Pass(c, i, LocalFeedback(i)) IN
       IF p.how = "return"
         THEN /\ ret' = [ ret EXCEPT ![i] =
                            Some([ beat_idx |-> i, effects |-> p.effects,
                                   reasoning |-> p.reasoning ]) ]
              /\ outcome' = [ outcome EXCEPT ![i] = "accepted" ]
              /\ pc' = [ pc EXCEPT ![i] = "counter_load" ]
              /\ attempt' = [ attempt EXCEPT ![i] = 0 ]
              /\ error_feedback' = [ error_feedback EXCEPT ![i] = << >> ]
         ELSE /\ attempt' = [ attempt EXCEPT ![i] = @ + 1 ]
              /\ error_feedback' = [ error_feedback EXCEPT ![i] = p.feedback ]
              /\ pc' = [ pc EXCEPT ![i] = "attempt" ]
              /\ UNCHANGED << ret, outcome >>
    /\ UNCHANGED << beats, window_size, max_retries, max_concurrent, api_key,
                    service, mainpc, submitted, semaphore, completed,
                    all_effects, all_reasonings, collected, calls, loaded,
                    base_prompt, validatorVars >>

\* lines 193, 264-266: the loop is over, the fallback is returned
GiveUp(i) ==
    /\ pc[i] = "attempt"
    /\ ~LoopGoesOn(attempt[i], max_retries)
    /\ ret' = [ ret EXCEPT ![i] =
                  Some([ beat_idx |-> i, effects |-> << >>,
                         reasoning |-> "" ]) ]
    /\ outcome' = [ outcome EXCEPT ![i] = "exhausted" ]
    /\ pc' = [ pc EXCEPT ![i] = "counter_load" ]
    /\ attempt' = [ attempt EXCEPT ![i] = 0 ]
    /\ error_feedback' = [ error_feedback EXCEPT ![i] = << >> ]
    /\ UNCHANGED << beats, window_size, max_retries, max_concurrent, api_key,
                    service, mainpc, submitted, semaphore, completed,
                    all_effects, all_reasonings, collected, content, calls,
                    loaded,
                    base_prompt, user_prompt, validatorVars >>

\* line 303, the read of completed[0] += 1
CounterLoad(i) ==
    /\ pc[i] = "counter_load"
    /\ loaded' = [ loaded EXCEPT ![i] = completed ]
    /\ pc' = [ pc EXCEPT ![i] = "counter_store" ]
    /\ content' = [ content EXCEPT ![i] = NoContent ]
    /\ UNCHANGED << beats, window_size, max_retries, max_concurrent, api_key,
                    service, mainpc, submitted, semaphore, completed,
                    all_effects, all_reasonings, collected, attempt,
                    error_feedback, calls, outcome, ret, base_prompt,
                    user_prompt, validatorVars >>

\* lines 303-306: the write of completed[0] += 1, the return and the end of
\* the with block
CounterStore(i) ==
    /\ pc[i] = "counter_store"
    /\ completed' = loaded[i] + 1
    /\ loaded' = [ loaded EXCEPT ![i] = 0 ]
    /\ semaphore' = semaphore + 1
    /\ pc' = [ pc EXCEPT ![i] = "done" ]
    /\ UNCHANGED << beats, window_size, max_retries, max_concurrent, api_key,
                    service, mainpc, submitted, all_effects, all_reasonings,
                    collected, attempt, error_feedback, content, calls,
                    outcome, ret, base_prompt, user_prompt,
                    validatorVars >>

\* results stored in the order the futures complete
ResultSlotByCompletion(result, n_collected) == n_collected

\* lines 314-316: the slot a future's result is written to
ResultSlot(result, n_collected) == result.beat_idx

\* lines 313-316: as_completed yields a finished future; future.result()
\* re-raises the exception of a task that raised, and the with block waits
\* for the tasks still running before the exception leaves predict_effects
Collect(i) ==
    /\ mainpc = "as_completed"
    /\ i \in Finished \ collected
    /\ collected' = collected \cup { i }
    /\ IF pc[i] = "raised"
         THEN /\ mainpc' = "unwinding"
              /\ UNCHANGED << all_effects, all_reasonings >>
         ELSE LET slot == ResultSlot(ret[i].val, Cardinality(collected)) IN
              /\ all_effects' =
                   [ all_effects EXCEPT ![slot] = Some(ret[i].val.effects) ]
              /\ all_reasonings' =
                   [ all_reasonings EXCEPT
                       ![slot] = Some(ret[i].val.reasoning) ]
              /\ UNCHANGED mainpc
    /\ UNCHANGED << beats, window_size, max_retries, max_concurrent, api_key,
                    service, submitted, semaphore, completed, pc, attempt,
                    error_feedback, content, calls, outcome, ret, loaded,
                    base_prompt, user_prompt,
                    validatorVars >>

\* a safety net that resets every slot, filled or not
DefaultAlways(slot, default) == Some(default)

\* lines 319-320
Default(slot, default) == IF slot = None THEN Some(default) ELSE slot

\* lines 311-324: the with block ends once every task has finished; then
\* the exception future.result() raised leaves predict_effects, or the
\* None slots get their defaults and with_fx / total is computed, which
\* raises ZeroDivisionError on no beats
Return ==
    /\ Finished = Indices
    /\ \/ mainpc = "unwinding"
       \/ mainpc = "as_completed" /\ collected = Indices
    /\ IF mainpc = "unwinding"
         THEN /\ mainpc' = "KeyError"
              /\ UNCHANGED << all_effects, all_reasonings >>
         ELSE /\ all_effects' =
                   [ i \in Indices |-> Default(all_effects[i], << >>) ]
              /\ all_reasonings' =
                   [ i \in Indices |-> Default(all_reasonings[i], "") ]
              /\ mainpc' =
                   (IF Total = 0 THEN "ZeroDivisionError" ELSE "returned")
    /\ UNCHANGED << beats, window_size, max_retries, max_concurrent, api_key,
                    service, submitted, semaphore, completed, collected, pc,
                    attempt, error_feedback, content, calls, outcome, ret,
                    loaded,
                    base_prompt, user_prompt, validatorVars >>

\* a count of all beats in place of the beats that have effects
beats_counted(groupLights) == Cardinality(DOMAIN groupLights)

\* validate.py lines 95-97: the beats whose groupLights list is not empty
beats_with_effects(groupLights) ==
    Cardinality({ i \in DOMAIN groupLights : groupLights[i] # << >> })

\* validate.py lines 98-99
beats_empty(groupLights) ==
    Cardinality({ i \in DOMAIN groupLights : groupLights[i] = << >> })

\* validate.py lines 93-103: the violations of beats i, i+1, .. total-1, each
\* effect validated with the index of its beat
RECURSIVE FileErrors(_, _)
FileErrors(groupLights, i) ==
    IF i \notin DOMAIN groupLights THEN << >>
    ELSE AllErrors(groupLights[i], i) \o FileErrors(groupLights, i + 1)

\* a tally that counts no effect
TalliedNever(errs) == FALSE

\* validate.py line 104: if not errors
Tallied(errs) == errs = << >>

\* Counter[v] += 1
CounterAdd(counter, v) ==
    [ x \in DOMAIN counter \cup { v } |->
        IF x = v
          THEN (IF v \in DOMAIN counter THEN counter[v] + 1 ELSE 1)
          ELSE counter[x] ]

\* validate.py lines 101-109: the histogram of one field after the effects
\* of one beat
RECURSIVE UsageOfBeat(_, _, _, _)
UsageOfBeat(gls, i, field, counter) ==
    IF gls = << >> THEN counter
    ELSE UsageOfBeat(Tail(gls), i, field,
                     IF Tallied(validate_group_light(Head(gls), i))
                       THEN CounterAdd(counter, Head(gls)[field])
                       ELSE counter)

\* validate.py lines 93-109: the histogram of one field after the beats
\* i, i+1, .. of the file
RECURSIVE UsageFrom(_, _, _, _)
UsageFrom(groupLights, i, field, counter) ==
    IF i \notin DOMAIN groupLights THEN counter
    ELSE UsageFrom(groupLights, i + 1, field,
                   UsageOfBeat(groupLights[i], i, field, counter))

\* validate.py lines 82-110: the statistics validate_file returns
Stats(groupLights) ==
    [ total_beats |-> Cardinality(DOMAIN groupLights),
      beats_with_effects |-> beats_with_effects(groupLights),
      beats_empty |-> beats_empty(groupLights),
      groupKey_usage |->
        UsageFrom(groupLights, 0, "groupLightKey", EmptyCounter),
      motion_usage |-> UsageFrom(groupLights, 0, "MotionEffect", EmptyCounter),
      color_usage |-> UsageFrom(groupLights, 0, "ColorEffect", EmptyCounter),
      intensity_usage |->
        UsageFrom(groupLights, 0, "IntensityEffect", EmptyCounter),
      vfx_usage |-> UsageFrom(groupLights, 0, "VfxEffect", EmptyCounter) ]

\* main.py lines 88-109 and validate.py lines 75-110: process_song merges
\* the effect sets into the beats (beat["groupLights"]), saves the timeline
\* and audits the saved file
Audit ==
    /\ mainpc = "returned"
    /\ mainpc' = "audited"
    /\ LET groupLights == [ i \in Indices |-> all_effects[i].val ] IN
       /\ timeline' = groupLights
       /\ errors' = FileErrors(groupLights, 0)
       /\ stats' = Stats(groupLights)
    /\ UNCHANGED << beats, window_size, max_retries, max_concurrent, api_key,
                    service, submitted, semaphore, completed, all_effects,
                    all_reasonings, collected, pc, attempt, error_feedback,
                    content, calls, outcome, ret, loaded, base_prompt,
                    user_prompt, vpc, gl, vbeat >>

Next ==
    \/ CreateClient
    \/ Submit
    \/ \E i \in Indices : Dequeue(i)
    \/ \E i \in Indices : Acquire(i)
    \/ \E i \in Indices : BuildPrompt(i)
    \/ \E i \in Indices : StartCall(i)
    \/ \E i \in Indices : \E c \in ServiceOutcomes(service, i) : Receive(i, c)
    \/ \E i \in Indices : GiveUp(i)
    \/ \E i \in Indices : CounterLoad(i)
    \/ \E i \in Indices : CounterStore(i)
    \/ \E i \in Indices : Collect(i)
    \/ Return
    \/ Audit

(***************************************************************************)
(* Scheduling.  The main thread, the worker threads of the pool and the    *)
(* external service each go on when they can: a thread that can take a     *)
(* step is eventually scheduled, and a call that does not hang eventually  *)
(* returns or raises.                                                      *)
(***************************************************************************)
\* lines 204-211 with a service that never answers: the call of task i
\* blocks for ever (the client is given no timeout); one call at most hangs
Hang(i) ==
    /\ pc[i] = "incall"
    /\ \A j \in Indices : pc[j] # "hung"
    /\ pc' = [ pc EXCEPT ![i] = "hung" ]
    /\ UNCHANGED << beats, window_size, max_retries, max_concurrent, api_key,
                    service, mainpc, submitted, semaphore, completed,
                    all_effects, all_reasonings, collected, attempt,
                    error_feedback, content, calls, outcome, ret, loaded,
                    base_prompt, user_prompt, validatorVars >>

NextHang ==
    \/ Next
    \/ \E i \in Indices : Hang(i)

\* the indices a task can have
TaskIds == 0..(Max(MaxBeats, MaxQueue) - 1)

\* the steps of the worker thread that runs task i
TaskStep(i) ==
    /\ i \in Indices
    /\ \/ Dequeue(i)
       \/ Acquire(i)
       \/ BuildPrompt(i)
       \/ StartCall(i)
       \/ GiveUp(i)
       \/ CounterLoad(i)
       \/ CounterStore(i)

\* the service answers the call of task i
ServiceStep(i) ==
    /\ i \in Indices
    /\ \E c \in ServiceOutcomes(service, i) : Receive(i, c)

\* the steps of the main thread
MainStep ==
    \/ CreateClient
    \/ Submit
    \/ \E i \in Indices : Collect(i)
    \/ Return
    \/ Audit

Fairness ==
    /\ WF_vars(MainStep)
    /\ \A i \in TaskIds : WF_vars(TaskStep(i)) /\ WF_vars(ServiceStep(i))

(***************************************************************************)
(* validate.py called directly on one groupLight object.                   *)
(***************************************************************************)
FieldNames == { RequiredFields[n] : n \in 1..Len(RequiredFields) }

\* the values a field takes: its enum range and OutOfRange beyond each end
FieldValues(f) ==
    LET range == VALID_RANGES[f]
        lo == CHOOSE x \in range : \A y \in range : x <= y
        hi == CHOOSE x \in range : \A y \in range : x >= y
    IN  (lo - OutOfRange)..(hi + OutOfRange)

GroupLights ==
    { GroupLight(key, motion, color, intensity, vfx) :
        key \in FieldValues("groupLightKey"),
        motion \in FieldValues("MotionEffect"),
        color \in FieldValues("ColorEffect"),
        intensity \in FieldValues("IntensityEffect"),
        vfx \in FieldValues("VfxEffect") }

\* no batch is running
BatchIdle ==
    /\ beats = << >>
    /\ window_size = DefaultWindowSize
    /\ max_retries = 0
    /\ max_concurrent = 1
    /\ api_key = FALSE
    /\ service = "any"
    /\ mainpc = "idle"
    /\ submitted = 0
    /\ semaphore = 0
    /\ completed = 0
    /\ all_effects = << >>
    /\ all_reasonings = << >>
    /\ collected = { }
    /\ pc = << >>
    /\ attempt = << >>
    /\ base_prompt = << >>
    /\ error_feedback = << >>
    /\ user_prompt = << >>
    /\ content = << >>
    /\ calls = << >>
    /\ outcome = << >>
    /\ ret = << >>
    /\ loaded = << >>

InitValidator ==
    /\ BatchIdle
    /\ vpc = "call"
    /\ gl \in GroupLights
    /\ vbeat \in 0..MaxBeats
    /\ errors = << >>
    /\ stats = NoStats
    /\ timeline = << >>

\* errors = validate_group_light(gl, beat_idx)
Validate ==
    /\ vpc = "call"
    /\ errors' = validate_group_light(gl, vbeat)
    /\ vpc' = "returned"
    /\ UNCHANGED << gl, vbeat, stats, timeline, mainVars >>

NextValidator == Validate

\* the validator on every groupLight object of integer fields
SpecValidator == InitValidator /\ [][NextValidator]_vars

\* the interval that holds the values of every field
FieldValueSpan ==
    LET all == UNION { FieldValues(f) : f \in FieldNames }
    IN  (CHOOSE x \in all : \A y \in all : x <= y)
          ..(CHOOSE x \in all : \A y \in all : x >= y)

\* groupLight objects that lack at least one required field; the fields
\* they hold take the values of FieldValues
PartialGroupLights ==
    UNION { { g \in [ fields -> FieldValueSpan ] :
                \A f \in fields : g[f] \in FieldValues(f) } :
            fields \in (SUBSET FieldNames) \ { FieldNames } }

InitPartial ==
    /\ BatchIdle
    /\ vpc = "call"
    /\ gl \in PartialGroupLights
    /\ vbeat \in 0..MaxBeats
    /\ errors = << >>
    /\ stats = NoStats
    /\ timeline = << >>

\* the validator on every groupLight object that lacks a field
SpecPartial == InitPartial /\ [][NextValidator]_vars

(***************************************************************************)
(* validate.py, validate_file called on a timeline file that was not       *)
(* produced by the batch: its effects may break the grammar.               *)
(***************************************************************************)
\* the effects the audited files are made of: a valid one, one with seven
\* violations, one that lacks a field
FileEffects == { FX_SINGLE, FX_SEVEN, FX_NO_VFX_FIELD }

\* the lists of at most n elements of set
ListsUpTo(set, n) == UNION { [ 1..len -> set ] : len \in 0..n }

\* the groupLights lists of the beats of a file
Timelines ==
    UNION { [ 0..(n - 1) -> ListsUpTo(FileEffects, MaxEffects) ] :
            n \in 0..MaxFileBeats }

InitFile ==
    /\ BatchIdle
    /\ vpc = "file"
    /\ gl = FX_VFX
    /\ vbeat = 0
    /\ errors = << >>
    /\ stats = NoStats
    /\ timeline \in Timelines

\* errors, stats = validate_file(filepath)
ValidateFile ==
    /\ vpc = "file"
    /\ errors' = FileErrors(timeline, 0)
    /\ stats' = Stats(timeline)
    /\ vpc' = "audited"
    /\ UNCHANGED << gl, vbeat, timeline, mainVars >>

NextFile == ValidateFile

\* the audit of an arbitrary timeline file
SpecFile == InitFile /\ [][NextFile]_vars

\* predict_effects on a beat list of the data model
Spec == Init /\ [][Next]_vars

\* predict_effects and the audit on a service that proposes no effect
SpecEmpty == InitEmpty /\ [][Next]_vars

\* the per-beat generator on the answers of an arbitrary service
SpecGenerator == InitGenerator /\ [][Next]_vars

\* predict_effects on whatever the timeline file holds
SpecRaw == InitRaw /\ [][Next]_vars

\* the requests predict_effects builds over longer beat lists
SpecWindow == InitWindow /\ [][Next]_vars

\* the per-beat generator over longer retry loops
SpecRetry == InitRetry /\ [][Next]_vars

\* predict_effects under fair scheduling with a service that always answers
SpecFair == Init /\ [][Next]_vars /\ Fairness

\* predict_effects under fair scheduling when one call may hang
SpecHang == InitQueue /\ [][NextHang]_vars /\ Fairness

(***************************************************************************)
(* The grammar as the design states it, written from its table (4.1) and   *)
(* not from the validator's code.                                          *)
(***************************************************************************)
InEnumRanges(g) ==
    /\ g.groupLightKey \in 0..6
    /\ g.MotionEffect \in 0..6
    /\ g.ColorEffect \in 0..3
    /\ g.IntensityEffect \in 0..4
    /\ g.VfxEffect \in 0..2

RowHolds(g) ==
    /\ g.groupLightKey \in {0, 1} =>
         /\ g.MotionEffect = 0
         /\ g.ColorEffect = 0
         /\ g.IntensityEffect = 0
         /\ g.VfxEffect \in {1, 2}
    /\ g.groupLightKey \in {2, 3} =>
         /\ g.MotionEffect \in {0, 3, 4, 5, 6}
         /\ g.VfxEffect = 0
    /\ g.groupLightKey \in {4, 5, 6} =>
         /\ g.MotionEffect \in {0, 1, 2}
         /\ g.VfxEffect = 0

(***************************************************************************)
(* C9.  For an effect with all five fields and integer values, inside or   *)
(* outside the enum ranges, validate_group_light returns the empty list    *)
(* exactly when every field is inside its range and the row of its group   *)
(* holds; for keys 2-6, replacing the colour and the intensity by any      *)
(* other values of their ranges leaves the verdict as it is.               *)
(***************************************************************************)
C9_ValidIffRangesAndRow ==
    vpc = "returned" =>
      /\ (errors = << >>) <=> (InEnumRanges(gl) /\ RowHolds(gl))
      /\ ( /\ gl.groupLightKey \in 2..6
           /\ gl.ColorEffect \in 0..3
           /\ gl.IntensityEffect \in 0..4 ) =>
           \A color \in 0..3, intensity \in 0..4 :
             (validate_group_light(
                [ gl EXCEPT !.ColorEffect = color,
                            !.IntensityEffect = intensity ], vbeat) = << >>)
               <=> (errors = << >>)

\* a SINGLE effect with no motion, coloured and dimmed, is found valid
C9_Witness ==
    /\ vpc = "returned"
    /\ gl = GroupLight(3, 0, 3, 4, 0)
    /\ errors = << >>

(***************************************************************************)
(* Vocabulary of the claims about the per-beat generator.                  *)
(***************************************************************************)
\* the text of the answer decodes to JSON
Decodable(c) == c.form \in { "json", "fenced" }

\* nothing can be decoded from the answer
Undecodable(c) == c.form \in { "garbage", "bad_brace" }

\* the candidates of a decodable answer: the effect records its decoding
\* hands to the validator
Candidates(c) == Records(Normalize(ExtractEffects(c.value)))

\* the rationale text of a decodable answer
Rationale(c) ==
    IF c.value.t = "obj" /\ \E n \in 1..Len(c.value.pairs) :
                               c.value.pairs[n].k = "reasoning"
      THEN (CHOOSE q \in { c.value.pairs[n] : n \in 1..Len(c.value.pairs) } :
              q.k = "reasoning").v.s
      ELSE ""

\* a candidate of the answer breaks the grammar
SomeCandidateViolates(c, beat_idx) ==
    /\ Decodable(c)
    /\ \E n \in 1..Len(Candidates(c)) :
         validate_group_light(Candidates(c)[n], beat_idx) # << >>

\* the answer decodes and every candidate passes validation
AllCandidatesPass(c, beat_idx) ==
    /\ Decodable(c)
    /\ \A n \in 1..Len(Candidates(c)) :
         validate_group_light(Candidates(c)[n], beat_idx) = << >>

\* the answer decodes to JSON that holds no list at all
NoListInside(c) ==
    /\ Decodable(c)
    /\ \/ c.value.t \in { "scalar", "str" }
       \/ /\ c.value.t = "obj"
          /\ \A n \in 1..Len(c.value.pairs) : c.value.pairs[n].v.t # "list"

\* the generator has returned for beat i
Returned(i) == pc[i] \in { "counter_load", "counter_store", "done" }

EmptyResult(i) == Some([ beat_idx |-> i, effects |-> << >>, reasoning |-> "" ])

(***************************************************************************)
(* C1.  Every effect of a set the per-beat generator returned, and of a    *)
(* set stored in the result array, has no validator violation; and when    *)
(* the generator returns straight after an answer one of whose candidates  *)
(* breaks the grammar, it returns the empty fallback, never the answer's   *)
(* valid candidates.                                                       *)
(***************************************************************************)
C1_ReturnedEffectsValid ==
    \A i \in Indices :
      /\ ret[i] # None =>
           \A n \in 1..Len(ret[i].val.effects) :
             validate_group_light(ret[i].val.effects[n], i) = << >>
      /\ all_effects[i] # None =>
           \A n \in 1..Len(all_effects[i].val) :
             validate_group_light(all_effects[i].val[n], i) = << >>
      /\ (pc[i] = "counter_load" /\ SomeCandidateViolates(content[i], i)) =>
           /\ outcome[i] = "exhausted"
           /\ ret[i] = EmptyResult(i)

\* beat 0 got a valid set of two effects; beat 1 ran out of attempts on an
\* answer with one valid and one invalid candidate and returned nothing
C1_Witness ==
    /\ Total = 2
    /\ pc[0] = "done"
    /\ ret[0].val.effects = << FX_VFX, FX_MULTI >>
    /\ pc[1] = "counter_load"
    /\ content[1] = R_PARTLY_VALID
    /\ ret[1] = EmptyResult(1)

(***************************************************************************)
(* C2.  No beat gets more than max_retries service calls; every failed     *)
(* attempt, whatever made it fail, consumed one of them; and a beat whose  *)
(* attempts all failed has had exactly max_retries calls and returns the   *)
(* empty effect set with the empty rationale.                              *)
(***************************************************************************)
C2_ExhaustedAfterMaxRetries ==
    \A i \in Indices :
      /\ calls[i] <= max_retries
      /\ pc[i] = "attempt" => calls[i] = attempt[i]
      /\ outcome[i] = "exhausted" =>
           /\ calls[i] = max_retries
           /\ ret[i] = EmptyResult(i)

\* two attempts, the last one an answer with a rationale and an invalid
\* candidate: the fallback is returned
C2_Witness ==
    \E i \in Indices :
      /\ max_retries = 2
      /\ pc[i] = "counter_load"
      /\ outcome[i] = "exhausted"
      /\ content[i] = R_PARTLY_VALID
      /\ Rationale(content[i]) = "drop"
      /\ calls[i] = 2
      /\ ret[i] = EmptyResult(i)

(***************************************************************************)
(* C3.  The generator never goes on to another attempt after an answer     *)
(* whose candidates all pass; it returns that answer's effect set and      *)
(* rationale; the accepting attempt is call number attempt + 1, where      *)
(* attempt counts the failed attempts before it; and after the return the  *)
(* beat gets no further call.                                              *)
(***************************************************************************)
C3_State ==
    \A i \in Indices :
      /\ pc[i] = "attempt" => ~AllCandidatesPass(content[i], i)
      /\ pc[i] = "incall" => calls[i] = attempt[i] + 1
      /\ (pc[i] = "counter_load" /\ AllCandidatesPass(content[i], i)) =>
           /\ outcome[i] = "accepted"
           /\ ret[i] = Some([ beat_idx |-> i,
                              effects |-> Candidates(content[i]),
                              reasoning |-> Rationale(content[i]) ])

C3_Step ==
    \A i \in Indices :
      /\ (outcome[i] = "none" /\ outcome'[i] = "accepted") =>
           /\ pc[i] = "incall"
           /\ calls'[i] = attempt[i] + 1
           /\ calls'[i] <= max_retries
      /\ outcome[i] # "none" =>
           /\ calls'[i] = calls[i]
           /\ ret'[i] = ret[i]
           /\ pc'[i] # "incall"

C3_FirstValidAttemptReturned == []C3_State /\ [][C3_Step]_vars

\* the second attempt of a beat is the first one accepted
C3_Witness ==
    \E i \in Indices :
      /\ pc[i] = "counter_load"
      /\ outcome[i] = "accepted"
      /\ content[i] = R_VALID
      /\ calls[i] = 2
      /\ ret[i].val.effects = << FX_VFX, FX_MULTI >>
      /\ ret[i].val.reasoning = "chorus"

(***************************************************************************)
(* C8, as stated.  An answer from which no effects list can be extracted   *)
(* (text that is not JSON, a JSON scalar, a JSON object with no list) is   *)
(* never accepted: the generator returns straight after it only by         *)
(* exhaustion.                                                             *)
(***************************************************************************)
C8_NoEffectsListNeverAccepted ==
    \A i \in Indices :
      (pc[i] = "counter_load"
         /\ (Undecodable(content[i]) \/ NoListInside(content[i])))
        => outcome[i] = "exhausted"

(***************************************************************************)
(* C8, amended.  An answer from which nothing can be decoded is never      *)
(* accepted: the attempt fails, consumes one attempt, leaves the feedback  *)
(* as it was, and the generator goes on to the next attempt or to          *)
(* exhaustion.  An answer that decodes to a JSON scalar or to an object    *)
(* holding no list is accepted on that attempt as an empty effect set.     *)
(***************************************************************************)
C8_Step ==
    \A i \in Indices :
      (pc[i] = "incall" /\ pc'[i] # "incall") =>
        /\ Undecodable(content'[i]) =>
             /\ pc'[i] = "attempt"
             /\ attempt'[i] = attempt[i] + 1
             /\ calls'[i] = calls[i]
             /\ error_feedback'[i] = error_feedback[i]
             /\ outcome'[i] = "none"
             /\ ret'[i] = None
        /\ NoListInside(content'[i]) =>
             /\ outcome'[i] = "accepted"
             /\ ret'[i] = Some([ beat_idx |-> i, effects |-> << >>,
                                 reasoning |-> Rationale(content'[i]) ])

C8_State ==
    \A i \in Indices :
      (pc[i] = "counter_load" /\ Undecodable(content[i])) =>
        /\ outcome[i] = "exhausted"
        /\ calls[i] = max_retries

C8_UndecodableNeverAccepted == []C8_State /\ [][C8_Step]_vars

\* the first answer of a beat was text without JSON: one attempt is gone
\* and the beat is about to be asked again
C8_Witness ==
    \E i \in Indices :
      /\ pc[i] = "attempt"
      /\ content[i] = R_GARBAGE
      /\ attempt[i] = 1
      /\ calls[i] = 1
      /\ max_retries = 2
      /\ ret[i] = None

(***************************************************************************)
(* C10.  Every effect of a returned or stored set conforms to the row of   *)
(* its group: keys 0,1 have motion = colour = intensity = 0 and vfx in     *)
(* {1,2}; keys 2,3 have vfx = 0 and motion in {0,3,4,5,6}; keys 4,5,6      *)
(* have vfx = 0 and motion in {0,1,2}.                                     *)
(***************************************************************************)
C10_AcceptedEffectsConformToRow ==
    \A i \in Indices :
      /\ ret[i] # None =>
           \A n \in 1..Len(ret[i].val.effects) :
             /\ DOMAIN ret[i].val.effects[n] = FieldNames
             /\ RowHolds(ret[i].val.effects[n])
      /\ all_effects[i] # None =>
           \A n \in 1..Len(all_effects[i].val) :
             /\ DOMAIN all_effects[i].val[n] = FieldNames
             /\ RowHolds(all_effects[i].val[n])

\* the batch returned a VFX effect and a MULTI effect for beat 0 and a
\* SINGLE effect for beat 1
C10_Witness ==
    /\ mainpc = "returned"
    /\ Total = 2
    /\ all_effects[0] = Some(<< FX_VFX, FX_MULTI >>)
    /\ all_effects[1] = Some(<< FX_SINGLE >>)

(***************************************************************************)
(* Vocabulary of the claims about the batch.                               *)
(***************************************************************************)
\* tasks inside the call to the external service
InCall == { i \in Indices : pc[i] = "incall" }

\* tasks inside the with block of process_beat, each holding one slot
Holding ==
    { i \in Indices :
        pc[i] \in { "build", "attempt", "incall", "counter_load",
                    "counter_store" } }

\* predict_effects has got past create_client on a beat list that is not
\* empty
BatchRuns == api_key /\ Total >= 1

\* what the mock service's payload for beat i gives when it is accepted
BeatPayload(i) ==
    [ beat_idx |-> i,
      effects |-> << GroupLight(4 + (i % 3), 1, 2, 3, 0) >>,
      reasoning |-> ToString(i) ]

(***************************************************************************)
(* C4.  On N >= 1 beats predict_effects does not raise, and the result     *)
(* arrays have exactly N slots; whatever the limit and the order in which  *)
(* the tasks complete, the slot of a beat whose future was taken holds     *)
(* the effect set and the rationale of that beat's task (the payload of    *)
(* that beat when the mock's answer was accepted), the other slots are     *)
(* still unset, and at the return every slot is taken.                     *)
(***************************************************************************)
C4_ResultsInInputOrder ==
    BatchRuns =>
      /\ mainpc \notin MainRaised \cup { "unwinding" }
      /\ DOMAIN all_effects = Indices
      /\ DOMAIN all_reasonings = Indices
      /\ mainpc = "returned" => collected = Indices
      /\ \A i \in Indices :
           IF i \in collected
             THEN /\ all_effects[i] = Some(ret[i].val.effects)
                  /\ all_reasonings[i] = Some(ret[i].val.reasoning)
                  /\ outcome[i] = "accepted" =>
                       /\ all_effects[i] = Some(BeatPayload(i).effects)
                       /\ all_reasonings[i] = Some(BeatPayload(i).reasoning)
                  /\ outcome[i] = "exhausted" =>
                       /\ all_effects[i] = Some(<< >>)
                       /\ all_reasonings[i] = Some("")
             ELSE /\ all_effects[i] = None
                  /\ all_reasonings[i] = None

\* beat 1 completed and was stored before beat 0
C4_Witness ==
    /\ Total = 2
    /\ collected = { 1 }
    /\ all_effects[1] = Some(<< GroupLight(5, 1, 2, 3, 0) >>)
    /\ all_reasonings[1] = Some("1")
    /\ all_effects[0] = None

(***************************************************************************)
(* C5.  At most max_concurrent tasks are inside the service call; every    *)
(* task inside the with block holds one slot of the semaphore, whose       *)
(* value is the number of free slots; and a task enters the with block     *)
(* only from a state in which a slot was free.                             *)
(***************************************************************************)
C5_State ==
    mainpc \notin { "create_client", "ValueError" } =>
      /\ Cardinality(InCall) <= max_concurrent
      /\ Cardinality(Holding) <= max_concurrent
      /\ semaphore = max_concurrent - Cardinality(Holding)
      /\ semaphore >= 0

C5_Step ==
    \A i \in Indices :
      (i \notin Holding /\ (i \in Holding)') =>
        /\ semaphore > 0
        /\ Cardinality(Holding) < max_concurrent

C5_AtMostLimitInCall == []C5_State /\ [][C5_Step]_vars

\* a task waits in the queue while max_concurrent tasks are in the call
C5_Witness ==
    \E i \in Indices :
      /\ pc[i] = "queued"
      /\ mainpc = "as_completed"
      /\ Cardinality(InCall) = max_concurrent

(***************************************************************************)
(* C6, as stated.  An error raised at any step of a beat's task is caught  *)
(* inside the task: no future ends with an exception and predict_effects   *)
(* does not raise on a beat list that is not empty.                        *)
(***************************************************************************)
C6_TaskErrorsAbsorbed ==
    BatchRuns =>
      /\ \A i \in Indices : pc[i] # "raised"
      /\ mainpc \notin MainRaised \cup { "unwinding" }

(***************************************************************************)
(* C7.  With a service whose every call raises a transport error,          *)
(* predict_effects on N >= 1 beats does not raise, every beat's task       *)
(* returns the empty fallback after exactly max_retries calls, and the     *)
(* batch returns N empty effect sets with N empty rationales.              *)
(***************************************************************************)
C7_AlwaysRaisingService ==
    (BatchRuns /\ service = "always_raises") =>
      /\ mainpc \notin MainRaised \cup { "unwinding" }
      /\ \A i \in Indices :
           /\ pc[i] # "raised"
           /\ Returned(i) =>
                /\ ret[i] = EmptyResult(i)
                /\ calls[i] = max_retries
      /\ mainpc = "returned" =>
           \A i \in Indices :
             /\ all_effects[i] = Some(<< >>)
             /\ all_reasonings[i] = Some("")
             /\ calls[i] = max_retries

\* two beats, two attempts each, every call raised: the batch returned
C7_Witness ==
    /\ service = "always_raises"
    /\ mainpc = "returned"
    /\ Total = 2
    /\ max_retries = 2
    /\ \A i \in Indices :
         /\ calls[i] = 2
         /\ all_effects[i] = Some(<< >>)
         /\ all_reasonings[i] = Some("")

(***************************************************************************)
(* C11, as stated.  On an empty beat list (the credential present)         *)
(* predict_effects does not raise: it returns two empty lists.             *)
(***************************************************************************)
C11_EmptyBatchReturns ==
    (api_key /\ Total = 0) =>
      /\ mainpc \notin MainRaised
      /\ all_effects = << >>
      /\ all_reasonings = << >>

\* validate.py line 121, print_stats: the percentage of beats with effects
Coverage(st) == (st.beats_with_effects * 100) \div st.total_beats

(***************************************************************************)
(* C12.  A response whose effects array is empty is accepted on the        *)
(* attempt that received it, as the empty effect set with the response's   *)
(* rationale, and no further call is made for the beat.  With a service    *)
(* that always answers so, a batch of N >= 1 beats under any limit does    *)
(* not raise and returns N empty effect sets, and the audit of the merged  *)
(* timeline counts N beats, 0 of them with effects (0% coverage), and      *)
(* reports no violation.                                                   *)
(***************************************************************************)
C12_State ==
    (BatchRuns /\ service = "always_empty") =>
      /\ mainpc \notin MainRaised \cup { "unwinding" }
      /\ \A i \in Indices :
           /\ pc[i] # "raised"
           /\ Returned(i) =>
                /\ ret[i].val.effects = << >>
                /\ max_retries >= 1 =>
                     /\ outcome[i] = "accepted"
                     /\ calls[i] = 1
                     /\ ret[i].val.reasoning = Rationale(R_EMPTY)
      /\ mainpc \in { "returned", "audited" } =>
           /\ DOMAIN all_effects = Indices
           /\ \A i \in Indices : all_effects[i] = Some(<< >>)
      /\ mainpc = "audited" =>
           /\ stats.total_beats = Total
           /\ stats.beats_with_effects = 0
           /\ stats.beats_empty = Total
           /\ Coverage(stats) = 0
           /\ errors = << >>

\* the step that handles an empty effects array returns it at once
C12_Step ==
    \A i \in Indices :
      (pc[i] = "incall" /\ pc'[i] # "incall" /\ content'[i] = R_EMPTY) =>
        /\ pc'[i] = "counter_load"
        /\ outcome'[i] = "accepted"
        /\ ret'[i] = Some([ beat_idx |-> i, effects |-> << >>,
                            reasoning |-> Rationale(R_EMPTY) ])
        /\ calls'[i] = calls[i]

C12_EmptyEffectsAccepted == []C12_State /\ [][C12_Step]_vars

\* the always-empty service on a full batch under a limit below its size:
\* audited, nothing with effects, no violation
C12_Witness ==
    /\ service = "always_empty"
    /\ mainpc = "audited"
    /\ Total = MaxBeats
    /\ max_concurrent < Total
    /\ \A i \in Indices : calls[i] = 1 /\ all_effects[i] = Some(<< >>)
    /\ stats.beats_with_effects = 0
    /\ stats.beats_empty = Total
    /\ errors = << >>

(***************************************************************************)
(* C13.  Without the credential predict_effects raises at create_client,   *)
(* its first step: no task is ever submitted or started, no service call   *)
(* is made for any beat, no slot of the result arrays is written and       *)
(* predict_effects never returns.                                          *)
(***************************************************************************)
C13_NoCredentialRaisesAtStart ==
    ~api_key =>
      /\ mainpc \in { "create_client", "ValueError" }
      /\ submitted = 0
      /\ completed = 0
      /\ collected = { }
      /\ \A i \in Indices :
           /\ pc[i] = "unsubmitted"
           /\ calls[i] = 0
           /\ ret[i] = None
           /\ all_effects[i] = None
           /\ all_reasonings[i] = None

\* a full beat list, no credential: the batch has raised
C13_Witness ==
    /\ ~api_key
    /\ mainpc = "ValueError"
    /\ Total = MaxBeats
    /\ \A i \in Indices : calls[i] = 0

\* the order in which the design names the required fields
FieldOrder ==
    << "groupLightKey", "MotionEffect", "ColorEffect", "IntensityEffect",
       "VfxEffect" >>

\* the first field of FieldOrder that g lacks
FirstAbsent(g) ==
    FieldOrder[CHOOSE n \in 1..Len(FieldOrder) :
                 /\ FieldOrder[n] \notin DOMAIN g
                 /\ \A m \in 1..(n - 1) : FieldOrder[m] \in DOMAIN g]

(***************************************************************************)
(* C14.  For an effect that lacks at least one of the five required        *)
(* fields validate_group_light returns exactly one violation: a            *)
(* missing-field violation for the beat it was called with, naming the     *)
(* first absent field in the order groupLightKey, MotionEffect,            *)
(* ColorEffect, IntensityEffect, VfxEffect; no range or group-rule         *)
(* violation is reported, whatever the values of the present fields.       *)
(***************************************************************************)
C14_MissingFieldShortCircuits ==
    (vpc = "returned" /\ \E f \in FieldNames : f \notin DOMAIN gl) =>
      /\ Len(errors) = 1
      /\ errors[1].kind = "missing_field"
      /\ errors[1].field = FirstAbsent(gl)
      /\ errors[1].beat = vbeat

\* a VFX-group effect without MotionEffect and VfxEffect whose colour is
\* out of range and whose intensity breaks the VFX row: one violation
C14_Witness ==
    /\ vpc = "returned"
    /\ gl = [ groupLightKey |-> 0, ColorEffect |-> 4, IntensityEffect |-> 2 ]
    /\ Len(errors) = 1
    /\ errors[1].field = "MotionEffect"

\* the indices a list of context beats holds
Listed(ctx) == { ctx[n] : n \in 1..Len(ctx) }

\* the list lo, lo+1, .., hi
FromTo(lo, hi) == [ n \in 1..(hi - lo + 1) |-> lo + n - 1 ]

\* the task of beat i has built its request
Built(i) ==
    pc[i] \in { "attempt", "incall", "counter_load", "counter_store", "done" }

(***************************************************************************)
(* C15.  On a beat list of N >= 1 beats, for every target i and every      *)
(* window w >= 0, building the request does not fail (at i = 0 and at      *)
(* i = N-1 either), and the request lists as "before" context exactly the  *)
(* beats max(0, i-w) .. i-1 in order and as "after" context exactly the    *)
(* beats i+1 .. min(N-1, i+w) in order: never the target, never an index   *)
(* outside 0..N-1, and no beat at all when w = 0.                          *)
(***************************************************************************)
C15_ContextWindow ==
    /\ mainpc \notin MainRaised \cup { "unwinding" }
    /\ \A i \in Indices :
         /\ pc[i] # "raised"
         /\ Built(i) => base_prompt[i] # None
         /\ base_prompt[i] # None =>
              LET p == base_prompt[i].val
                  w == window_size
              IN  /\ p.target = i
                  /\ p.before = FromTo(Max(0, i - w), i - 1)
                  /\ p.after = FromTo(i + 1, Min(Total - 1, i + w))
                  /\ i \notin Listed(p.before) \cup Listed(p.after)
                  /\ Listed(p.before) \cup Listed(p.after) \subseteq Indices
                  /\ w = 0 => p.before = << >> /\ p.after = << >>

\* four beats and window 1: the request of beat 1 lists beat 0 before and
\* beat 2 after, not beat 3; the request of the last beat lists nothing
\* after it
C15_Witness ==
    /\ Total = 4
    /\ window_size = 1
    /\ base_prompt[1] = Some([ target |-> 1, before |-> << 0 >>,
                               after |-> << 2 >> ])
    /\ base_prompt[3] = Some([ target |-> 3, before |-> << 2 >>,
                               after |-> << >> ])

\* the violations of the candidates of answer c, in the order the validator
\* produced them; none when nothing was decoded
Violations(c, beat_idx) ==
    IF Decodable(c) THEN AllErrors(Candidates(c), beat_idx) ELSE << >>

\* the first n elements of a list, all of them when it is shorter
FirstN(list, n) == SubSeq(list, 1, Min(Len(list), n))

(***************************************************************************)
(* C16.  The request of a beat's first attempt carries no feedback.  When  *)
(* an attempt's candidates produced k >= 1 violations, that attempt        *)
(* returns nothing, and the request of the next attempt is the base        *)
(* request with exactly the first min(k, 5) violation messages of that     *)
(* attempt, in the validator's order.  No returned effect set holds a      *)
(* candidate that violates the grammar.                                    *)
(***************************************************************************)
C16_State ==
    \A i \in Indices :
      /\ pc[i] = "incall" =>
           /\ user_prompt[i] # None
           /\ user_prompt[i].val.base = base_prompt[i].val
           /\ calls[i] = 1 => user_prompt[i].val.feedback = << >>
      /\ Returned(i) =>
           \A n \in 1..Len(ret[i].val.effects) :
             validate_group_light(ret[i].val.effects[n], i) = << >>

C16_Step ==
    \A i \in Indices :
      /\ \* the attempt that found violations returns nothing
         (pc[i] = "incall" /\ pc'[i] # "incall"
            /\ Violations(content'[i], i) # << >>) =>
           /\ pc'[i] = "attempt"
           /\ ret'[i] = None
      /\ \* the next attempt relays the first five of them
         (pc[i] = "attempt" /\ pc'[i] = "incall"
            /\ Violations(content[i], i) # << >>) =>
           user_prompt'[i].val.feedback = FirstN(Violations(content[i], i), 5)

C16_FeedbackToNextAttempt == []C16_State /\ [][C16_Step]_vars

\* the second request after an answer with seven violations carries five
C16_Witness ==
    \E i \in Indices :
      /\ pc[i] = "incall"
      /\ calls[i] = 2
      /\ Len(user_prompt[i].val.feedback) = 5
      /\ user_prompt[i].val.feedback = FirstN(Violations(R_SEVEN, i), 5)
      /\ Len(Violations(R_SEVEN, i)) = 7

\* the items of the effects array of a decodable answer
EffectsArray(c) == ExtractEffects(c.value)

\* the array holds an item that is no effect record and no list: a number,
\* a string, null
HasNonRecordItem(c) ==
    /\ Decodable(c)
    /\ \E n \in 1..Len(EffectsArray(c)) :
         EffectsArray(c)[n].t \notin { "dict", "list" }

\* the array holds no nested list
FlatArray(c) ==
    \A n \in 1..Len(EffectsArray(c)) : EffectsArray(c)[n].t # "list"

\* the effect records among the items of the array, in order
RecordItems(c) ==
    LET dicts == SelectSeq(EffectsArray(c), LAMBDA x : x.t = "dict")
    IN  [ n \in 1..Len(dicts) |-> dicts[n].gl ]

\* every record among the items passes the validator
RecordItemsPass(c, beat_idx) ==
    \A n \in 1..Len(RecordItems(c)) :
      validate_group_light(RecordItems(c)[n], beat_idx) = << >>

(***************************************************************************)
(* C17, as stated.  An answer whose effects array holds an item that is    *)
(* not an effect record is not accepted on that attempt: the generator     *)
(* returns straight after it only by exhaustion.                           *)
(***************************************************************************)
C17_NonRecordItemNotAccepted ==
    \A i \in Indices :
      (pc[i] = "counter_load" /\ HasNonRecordItem(content[i]))
        => outcome[i] = "exhausted"

(***************************************************************************)
(* C17, amended.  Every effect record of the effects array of an answer    *)
(* is run through the validator, and the answer is accepted on that        *)
(* attempt exactly when every one of its records passes.  An item that is  *)
(* not an effect record (a number, a string, null) is dropped before       *)
(* validation and does not stand in the way: the accepted effect set is    *)
(* the records of the array, in order, without the dropped items.          *)
(***************************************************************************)
C17_Step ==
    \A i \in Indices :
      (pc[i] = "incall" /\ pc'[i] # "incall" /\ Decodable(content'[i])
         /\ FlatArray(content'[i])) =>
        IF RecordItemsPass(content'[i], i)
          THEN /\ pc'[i] = "counter_load"
               /\ outcome'[i] = "accepted"
               /\ ret'[i].val.effects = RecordItems(content'[i])
          ELSE /\ pc'[i] = "attempt"
               /\ outcome'[i] = "none"
               /\ ret'[i] = None

C17_State ==
    \A i \in Indices :
      (pc[i] = "counter_load" /\ outcome[i] = "accepted"
         /\ FlatArray(content[i])) =>
        /\ RecordItemsPass(content[i], i)
        /\ ret[i].val.effects = RecordItems(content[i])

C17_RecordsValidatedOthersDropped == []C17_State /\ [][C17_Step]_vars

\* an answer holding a valid record and a bare number was accepted as the
\* record alone
C17_Witness ==
    \E i \in Indices :
      /\ pc[i] = "counter_load"
      /\ outcome[i] = "accepted"
      /\ content[i] = R_NOT_A_RECORD
      /\ HasNonRecordItem(content[i])
      /\ ret[i].val.effects = << FX_VFX >>

\* the answer is an object without an "effects" key that holds a list under
\* another key
ArrayUnderOtherKey(c) ==
    /\ Decodable(c)
    /\ c.value.t = "obj"
    /\ \A n \in 1..Len(c.value.pairs) : c.value.pairs[n].k # "effects"
    /\ \E n \in 1..Len(c.value.pairs) : c.value.pairs[n].v.t = "list"

\* the records of the first list such an object holds
OtherKeyRecords(c) ==
    LET lists == SelectSeq(c.value.pairs, LAMBDA q : q.v.t = "list")
        dicts == SelectSeq(lists[1].v.items, LAMBDA x : x.t = "dict")
    IN  [ n \in 1..Len(dicts) |-> dicts[n].gl ]

(***************************************************************************)
(* C18, as stated.  When the answer is an object that holds the effects    *)
(* array under a key other than "effects", that array is the candidate     *)
(* list: the answer is accepted only when its records pass the validator,  *)
(* and the records are then the beat's effect set.                         *)
(***************************************************************************)
C18_OtherKeyArrayExtracted ==
    \A i \in Indices :
      (pc[i] = "counter_load" /\ outcome[i] = "accepted"
         /\ ArrayUnderOtherKey(content[i])) =>
        /\ ret[i].val.effects = OtherKeyRecords(content[i])
        /\ \A n \in 1..Len(OtherKeyRecords(content[i])) :
             validate_group_light(OtherKeyRecords(content[i])[n], i) = << >>

(***************************************************************************)
(* C19, as stated.  Every violation message validate_group_light returns,  *)
(* of whatever kind, carries the beat index it was called with and the     *)
(* groupLightKey of the effect.                                            *)
(***************************************************************************)
C19_MessagesCarryBeatAndKey ==
    vpc = "returned" =>
      \A n \in 1..Len(errors) :
        /\ errors[n].beat = vbeat
        /\ errors[n].tagged
        /\ "groupLightKey" \in DOMAIN gl =>
             errors[n].key = gl["groupLightKey"]

\* the tasks that have finished process_beat with a result
Done == { i \in Indices : pc[i] = "done" }

(***************************************************************************)
(* C20, as stated.  Under every interleaving of the tasks the completion   *)
(* counter is the number of beat tasks that have finished (no increment    *)
(* is lost), so it equals N once all N tasks have finished, and a step     *)
(* never decreases it and raises it by exactly 1 when a task finishes.     *)
(***************************************************************************)
C20_State ==
    /\ completed = Cardinality(Done)
    /\ (BatchRuns /\ Done = Indices) => completed = Total

C20_Step ==
    /\ completed' >= completed
    /\ \A i \in Indices :
         (i \notin Done /\ (i \in Done)') => completed' = completed + 1

C20_CounterCountsFinishedTasks == []C20_State /\ [][C20_Step]_vars

(***************************************************************************)
(* C21.  A slot of the result arrays changes only in the step that takes   *)
(* the future of the beat with the slot's index, from unset to the effect  *)
(* set and the rationale that beat's task returned; each future is taken   *)
(* once, so a slot is written once and never with another beat's result;   *)
(* and when predict_effects returns every slot holds its beat's result.    *)
(***************************************************************************)
C21_State ==
    /\ \A i \in Indices :
         /\ all_effects[i] # None =>
              /\ i \in collected
              /\ all_effects[i] = Some(ret[i].val.effects)
         /\ all_reasonings[i] # None =>
              /\ i \in collected
              /\ all_reasonings[i] = Some(ret[i].val.reasoning)
    /\ mainpc = "returned" =>
         \A i \in Indices : all_effects[i] # None /\ all_reasonings[i] # None

C21_Step ==
    /\ collected \subseteq collected'
    /\ \A i \in Indices :
         (all_effects'[i] # all_effects[i]
            \/ all_reasonings'[i] # all_reasonings[i]) =>
           /\ all_effects[i] = None
           /\ all_reasonings[i] = None
           /\ collected' = collected \cup { i }
           /\ i \notin collected
           /\ all_effects'[i] = Some(ret[i].val.effects)
           /\ all_reasonings'[i] = Some(ret[i].val.reasoning)
    /\ \A i \in Indices :
         (i \in collected' \ collected /\ pc[i] = "done") =>
           all_effects'[i] = Some(ret[i].val.effects)

C21_SlotsWrittenOnce == []C21_State /\ [][C21_Step]_vars

\* two beats, both accepted: each payload is in its own slot at the return
C21_Witness ==
    /\ mainpc = "returned"
    /\ Total = 2
    /\ all_effects[0] = Some(BeatPayload(0).effects)
    /\ all_effects[1] = Some(BeatPayload(1).effects)
    /\ all_reasonings[0] = Some("0")
    /\ all_reasonings[1] = Some("1")

\* the task whose call hangs, if any
Hung == { h \in Indices : pc[h] = "hung" }

(***************************************************************************)
(* C22.  When one call to the service never returns while every other      *)
(* call returns, and the limit is at least 2, every other beat's task      *)
(* eventually gets a slot and completes.  The hung call keeps the one      *)
(* slot it holds, and predict_effects, which joins every task, does not    *)
(* return.                                                                 *)
(***************************************************************************)
C22_State ==
    Hung # { } =>
      /\ Cardinality(Hung) = 1
      /\ mainpc \notin { "returned", "audited" } \cup MainRaised
      /\ semaphore <= max_concurrent - 1
      /\ \A h \in Hung : all_effects[h] = None

C22_Step == \A h \in Hung : pc'[h] = "hung"

C22_OthersComplete ==
    \A i \in TaskIds :
      [](( /\ i \in Indices
           /\ max_concurrent >= 2
           /\ Hung # { }
           /\ i \notin Hung ) => <>(i \in Indices /\ pc[i] = "done"))

C22_HangBlocksOneSlot ==
    /\ []C22_State
    /\ [][C22_Step]_vars
    /\ C22_OthersComplete

\* three beats under limit 2: the call of beat 0 hangs, and beat 2, which
\* had to wait for a slot, has completed
C22_Witness ==
    /\ Total = 3
    /\ max_concurrent = 2
    /\ pc[0] = "hung"
    /\ pc[1] = "done"
    /\ pc[2] = "done"
    /\ collected = { 1, 2 }

(***************************************************************************)
(* C23, as stated.  When every call to the service eventually returns or   *)
(* raises and the threads are scheduled fairly, a batch that has the       *)
(* credential makes at most max_retries calls per beat, every beat's task  *)
(* eventually finishes, accepted or exhausted, predict_effects eventually  *)
(* returns, and it has returned only when all N tasks have finished.       *)
(***************************************************************************)
C23_BatchTerminates ==
    /\ [](\A i \in Indices : calls[i] <= max_retries)
    /\ [](mainpc \in { "returned", "audited" } =>
            \A i \in Indices :
              pc[i] = "done" /\ outcome[i] \in { "accepted", "exhausted" })
    /\ \A i \in TaskIds :
         []((api_key /\ i \in Indices) =>
              <>(i \in Indices /\ pc[i] = "done"
                   /\ outcome[i] \in { "accepted", "exhausted" }))
    /\ [](api_key => <>(mainpc \in { "returned", "audited" }))

\* the places of the effects of a timeline: beat index and rank in the beat
Places(tl) ==
    UNION { { << i, n >> : n \in 1..Len(tl[i]) } : i \in DOMAIN tl }

EffectAt(tl, place) == tl[place[1]][place[2]]

\* the places of the effects the validator finds nothing against
CleanPlaces(tl) ==
    { place \in Places(tl) :
        validate_group_light(EffectAt(tl, place), place[1]) = << >> }

\* the number of violations over a set of places
RECURSIVE ViolationCount(_, _)
ViolationCount(tl, places) ==
    IF places = { } THEN 0
    ELSE LET place == CHOOSE q \in places : TRUE
         IN  Len(validate_group_light(EffectAt(tl, place), place[1]))
               + ViolationCount(tl, places \ { place })

\* histogram h is exactly the count, per value of field, of the effects at
\* the clean places
CountsCleanOnly(h, tl, field) ==
    LET clean == CleanPlaces(tl) IN
    /\ DOMAIN h = { EffectAt(tl, place)[field] : place \in clean }
    /\ \A v \in DOMAIN h :
         h[v] = Cardinality({ place \in clean :
                                EffectAt(tl, place)[field] = v })

(***************************************************************************)
(* C24.  After validate_file, each of the five usage histograms counts,    *)
(* value by value, exactly the effects of the timeline for which the       *)
(* validator reports no violation, so its total is their number; the       *)
(* violation list holds the violations of the other effects and nothing    *)
(* else; the coverage count is the number of beats with a non-empty        *)
(* effect set, and beats_with_effects + beats_empty = total_beats.         *)
(***************************************************************************)
C24_HistogramsCountValidOnly ==
    vpc = "audited" =>
      /\ CountsCleanOnly(stats.groupKey_usage, timeline, "groupLightKey")
      /\ CountsCleanOnly(stats.motion_usage, timeline, "MotionEffect")
      /\ CountsCleanOnly(stats.color_usage, timeline, "ColorEffect")
      /\ CountsCleanOnly(stats.intensity_usage, timeline, "IntensityEffect")
      /\ CountsCleanOnly(stats.vfx_usage, timeline, "VfxEffect")
      /\ LET violating == Places(timeline) \ CleanPlaces(timeline)
             raised == UNION { LET found == validate_group_light(
                                               EffectAt(timeline, place),
                                               place[1])
                               IN  { found[m] : m \in 1..Len(found) } :
                               place \in violating }
         IN  /\ Len(errors) = ViolationCount(timeline, violating)
             /\ \A n \in 1..Len(errors) : errors[n] \in raised
      /\ stats.total_beats = Cardinality(DOMAIN timeline)
      /\ stats.beats_with_effects =
           Cardinality({ i \in DOMAIN timeline : Len(timeline[i]) > 0 })
      /\ stats.beats_with_effects + stats.beats_empty = stats.total_beats

\* a file whose first beat holds a valid effect and one with seven
\* violations and whose second beat holds an effect without VfxEffect:
\* one effect counted, eight violations
C24_Witness ==
    /\ vpc = "audited"
    /\ timeline = [ i \in 0..1 |->
                      IF i = 0 THEN << FX_SINGLE, FX_SEVEN >>
                               ELSE << FX_NO_VFX_FIELD >> ]
    /\ stats.groupKey_usage = [ v \in { 2 } |-> 1 ]
    /\ stats.motion_usage = [ v \in { 3 } |-> 1 ]
    /\ stats.beats_with_effects = 2
    /\ Len(errors) = 8

(***************************************************************************)
(* C25.  The feedback a request carries is the feedback the beat's task    *)
(* holds when the request is sent, and that feedback is the one of the     *)
(* most recent earlier attempt that produced violations: an attempt that   *)
(* produces violations replaces it by the first five of its own (nothing   *)
(* of the older feedback is kept), an attempt that fails by a transport    *)
(* error or an undecodable answer leaves it unchanged, and no other step   *)
(* touches it while the loop runs.                                         *)
(***************************************************************************)
C25_Step ==
    \A i \in Indices :
      /\ \* the request carries the feedback held
         (pc[i] = "attempt" /\ pc'[i] = "incall") =>
           /\ user_prompt'[i].val.feedback = error_feedback[i]
           /\ error_feedback'[i] = error_feedback[i]
      /\ \* a failed attempt replaces it or keeps it
         (pc[i] = "incall" /\ pc'[i] = "attempt") =>
           IF Violations(content'[i], i) # << >>
             THEN error_feedback'[i] = FirstN(Violations(content'[i], i), 5)
             ELSE /\ content'[i] = Raised \/ Undecodable(content'[i])
                  /\ error_feedback'[i] = error_feedback[i]
      /\ (pc[i] = "incall" /\ pc'[i] = "incall") =>
           error_feedback'[i] = error_feedback[i]

C25_State ==
    \A i \in Indices :
      pc[i] = "incall" => user_prompt[i].val.feedback = error_feedback[i]

C25_FeedbackIsMostRecent == []C25_State /\ [][C25_Step]_vars

\* the first answer had seven violations, the second attempt got text that
\* is no JSON: the third request is about to carry the feedback of the first
C25_Witness ==
    \E i \in Indices :
      /\ max_retries = 3
      /\ pc[i] = "attempt"
      /\ attempt[i] = 2
      /\ content[i] = R_GARBAGE
      /\ error_feedback[i] = FirstN(Violations(R_SEVEN, i), 5)

\* the retry state of the task of beat i and what the task returned
RetryState(i) ==
    << attempt[i], error_feedback[i], user_prompt[i], content[i], calls[i],
       outcome[i], ret[i] >>

\* the beats the messages of a feedback were produced for
BeatsOf(feedback) == { feedback[k].beat : k \in DOMAIN feedback }

(***************************************************************************)
(* C26.  The tasks of a batch do not interfere through the retry state.    *)
(* The feedback a task holds and the feedback its request carries consist  *)
(* of messages produced for its own beat.  A step that is not a step of    *)
(* the task of beat i changes neither the attempt count, the feedback, the *)
(* request, the response nor the result of beat i, whatever it does to the *)
(* other beats; and the step that ends a call of beat i sets them to what  *)
(* one pass yields from the response to beat i, the index i and the        *)
(* feedback beat i held, nothing else.                                     *)
(***************************************************************************)
C26_State ==
    \A i \in Indices :
      /\ BeatsOf(error_feedback[i]) \subseteq { i }
      /\ user_prompt[i] # None =>
           BeatsOf(user_prompt[i].val.feedback) \subseteq { i }

C26_Step ==
    \A i \in Indices :
      /\ pc'[i] = pc[i] => RetryState(i)' = RetryState(i)
      /\ (pc[i] = "attempt" /\ pc'[i] = "incall") =>
           /\ user_prompt'[i] =
                Some(UserPrompt(base_prompt[i].val, error_feedback[i]))
           /\ attempt'[i] = attempt[i]
           /\ error_feedback'[i] = error_feedback[i]
      /\ (pc[i] = "incall" /\ pc'[i] # "incall") =>
           LET p == Pass(content'[i], i, error_feedback[i]) IN
           IF p.how = "return"
             THEN /\ pc'[i] = "counter_load"
                  /\ ret'[i] = Some([ beat_idx |-> i, effects |-> p.effects,
                                      reasoning |-> p.reasoning ])
             ELSE /\ pc'[i] = "attempt"
                  /\ attempt'[i] = attempt[i] + 1
                  /\ error_feedback'[i] = p.feedback
                  /\ ret'[i] = ret[i]
      /\ (ret[i] # None) => ret'[i] = ret[i]

C26_TasksDoNotInterfere == []C26_State /\ [][C26_Step]_vars

\* beat 0 holds the violations of its rejected answer while beat 1, whose
\* first call failed with nothing to relay, sends its second request
C26_Witness ==
    /\ Total = 2
    /\ error_feedback[0] # << >>
    /\ pc[1] = "incall"
    /\ attempt[1] = 1
    /\ user_prompt[1] # None
    /\ user_prompt[1].val.feedback = << >>
    /\ content[0] = R_PARTLY_VALID

====
